---- MODULE Spec2Model ----
(***************************************************************************)
(* nix-tree: the analytics engine (path_stats.rs) and the pane navigator   *)
(* (ui/app.rs, driven by the input loop of main.rs).                       *)
(*                                                                         *)
(* Store path identifiers are modelled as integers; the integer order      *)
(* stands for the lexicographic order of the path strings.  Display names  *)
(* and search queries are sequences of one-character strings.              *)
(***************************************************************************)
EXTENDS Integers, Sequences, FiniteSets, TLC

VARIABLES
    pc,         \* position of main: "loaded", "stats", "crashed", "tui", "done",
                \* and of run_tui: "run_tui", "enter_alt", "terminal_new",
                \* "failed", "disable_raw", "leave_alt", "show_cursor", "returned"
    graph,      \* StorePathGraph returned by query_path_info
    stats,      \* HashMap<String, PathStats> returned by calculate_stats
    app,        \* the App of run_app (ui/app.rs), or NoApp before it exists
    sort_in,    \* sort_paths: the slice before the first call
    sort_order, \* sort_paths: the order passed in
    sort_out,   \* sort_paths: the slice, sorted in place by each call
    sort_calls, \* sort_paths: the number of calls made on the slice
    term,       \* run_tui: the terminal's modes and the results in hand
    startup     \* main: the outcomes of the two calls of nix and the error returned

vars ==
    <<pc, graph, stats, app, sort_in, sort_order, sort_out, sort_calls, term,
      startup>>

-----------------------------------------------------------------------------
(* Bounds of the model *)

NumIds == 4          \* store paths present in the graph are 1..NumIds
MaxEdges == 4        \* total number of references in a generated graph
MaxStackDepth == 8   \* call depth at which the recursion overflows the stack
MaxSortLen == 3      \* longest slice handed to sort_paths in SpecSort
MaxSortCalls == 2    \* calls of sort_paths in a row on one slice in SpecSort
MaxQuery == 2        \* longest search query typed

Ids == 1..NumIds
AllIds == 0..NumIds  \* 0: an identifier referenced but not present in the store

-----------------------------------------------------------------------------
(* Generic helpers *)

Range(s) == {s[i] : i \in 1..Len(s)}

RECURSIVE SubsetsUpTo(_, _)
SubsetsUpTo(S, k) ==
    IF k = 0 THEN {{}}
    ELSE LET prev == SubsetsUpTo(S, k - 1)
         IN  prev \cup {T \cup {x} : T \in prev, x \in S}

RECURSIVE SeqsUpTo(_, _)
SeqsUpTo(S, k) ==
    IF k = 0 THEN {<<>>}
    ELSE LET prev == SeqsUpTo(S, k - 1)
         IN  prev \cup {Append(s, x) : s \in prev, x \in S}

\* The elements of a set of integers in ascending order.
RECURSIVE Ascending(_)
Ascending(S) ==
    IF S = {} THEN <<>>
    ELSE LET m == CHOOSE x \in S : \A y \in S : x <= y
         IN  <<m>> \o Ascending(S \ {m})

Reverse(s) == [i \in 1..Len(s) |-> s[Len(s) + 1 - i]]

-----------------------------------------------------------------------------
(* Graph Store (store_path.rs) *)

\* StorePathGraph::get_path: Some(store_path) iff the identifier is present.
HasPath(g, p) == \E i \in 1..Len(g.paths) : g.paths[i] = p

\* The references of a present path, <<>> standing for get_path = None.
References(g, p) == IF HasPath(g, p) THEN g.references[p] ELSE <<>>

\* StorePathGraph::get_references: the outgoing identifiers resolved to
\* store paths, identifiers not present in the store dropped.
get_references(g, p) == SelectSeq(References(g, p), LAMBDA r : HasPath(g, r))

\* StorePathGraph::get_referrers: the present paths that reference p.
get_referrers(g, p) ==
    SelectSeq(g.paths, LAMBDA q : p \in Range(g.references[q]))

-----------------------------------------------------------------------------
(* Analytics Engine (path_stats.rs) *)

\* .filter_map(|p| graph.get_path(p)).map(|p| p.nar_size).sum()
RECURSIVE SumNarSize(_, _)
SumNarSize(g, S) ==
    IF S = {} THEN 0
    ELSE LET p == CHOOSE x \in S : TRUE
         IN  (IF HasPath(g, p) THEN g.nar_size[p] ELSE 0) + SumNarSize(g, S \ {p})

\* calculate_closure with a fault, for comparison: the closure of a reference
\* is taken to be the reference alone.
calculate_closure_shallow(g, path, cache, depth) ==
    [closure |-> {path} \cup Range(References(g, path)),
     cache |-> cache, overflow |-> FALSE]

\* calculate_closure: memoised recursion over the references.  The cache is
\* consulted on entry and filled on return; nothing marks a path as being in
\* progress.  depth is the number of frames of calculate_closure on the
\* stack; beyond MaxStackDepth the stack overflows and the process aborts.
RECURSIVE calculate_closure(_, _, _, _)
calculate_closure(g, path, cache, depth) ==
    IF depth > MaxStackDepth
    THEN [closure |-> {}, cache |-> cache, overflow |-> TRUE]
    ELSE IF path \in DOMAIN cache
    THEN [closure |-> cache[path], cache |-> cache, overflow |-> FALSE]
    ELSE LET refs == References(g, path)
             walk[i \in 0..Len(refs)] ==
                 IF i = 0
                 THEN [closure |-> {path}, cache |-> cache, overflow |-> FALSE]
                 ELSE LET acc == walk[i - 1]
                      IN  IF acc.overflow THEN acc
                          ELSE LET r == calculate_closure(g, refs[i], acc.cache, depth + 1)
                               IN  [closure |-> acc.closure \cup r.closure,
                                    cache |-> r.cache,
                                    overflow |-> r.overflow]
             done == walk[Len(refs)]
         IN  IF done.overflow THEN done
             ELSE [closure |-> done.closure,
                   cache |-> [x \in DOMAIN done.cache \cup {path} |->
                                 IF x = path THEN done.closure ELSE done.cache[x]],
                   overflow |-> FALSE]

\* calculate_closure_set: iterative traversal with a stack (to_visit, popped
\* from the end) and the visited set closure.
RECURSIVE closure_set_loop(_, _, _)
closure_set_loop(g, to_visit, closure) ==
    IF to_visit = <<>> THEN closure
    ELSE LET current == to_visit[Len(to_visit)]
             rest == SubSeq(to_visit, 1, Len(to_visit) - 1)
         IN  IF current \notin closure
             THEN closure_set_loop(g, rest \o References(g, current),
                                   closure \cup {current})
             ELSE closure_set_loop(g, rest, closure)

calculate_closure_set(g, path) == closure_set_loop(g, <<path>>, {})

\* added_size_of with a fault, for comparison: the sibling subtraction is
\* dropped (added_size_no_siblings), or the set difference is taken the wrong
\* way round (added_size_reversed).
added_size_no_siblings(st, g, path) ==
    SumNarSize(g, {path} \cup UNION {calculate_closure_set(g, r) :
                                        r \in Range(References(g, path))})

added_size_reversed(st, g, path) ==
    LET unique_closure ==
            {path} \cup UNION {calculate_closure_set(g, r) :
                                  r \in Range(References(g, path))}
        shared_with_siblings ==
            UNION {calculate_closure_set(g, s) :
                      s \in UNION {Range(References(g, parent)) \ {path} :
                                      parent \in Range(st[path].immediate_parents)}}
    IN  SumNarSize(g, shared_with_siblings \ unique_closure)

\* added_size_of with another fault, for comparison: the siblings are
\* subtracted, but not what they reach.
added_size_direct_siblings(st, g, path) ==
    LET unique_closure ==
            {path} \cup UNION {calculate_closure_set(g, r) :
                                  r \in {x \in Range(References(g, path)) : x \in DOMAIN st}}
        siblings ==
            UNION {Range(References(g, parent)) \ {path} :
                      parent \in Range(st[path].immediate_parents)}
    IN  SumNarSize(g, unique_closure \ siblings)

\* One iteration of the loop of calculate_added_sizes: the added size of path.
added_size_of(st, g, path) ==
    LET unique_closure ==
            {path} \cup UNION {calculate_closure_set(g, r) :
                                  r \in {x \in Range(References(g, path)) : x \in DOMAIN st}}
        parents == st[path].immediate_parents
        shared_with_siblings ==
            UNION {calculate_closure_set(g, s) :
                      s \in UNION {Range(References(g, parent)) \ {path} :
                                      parent \in Range(parents)}}
    IN  SumNarSize(g, unique_closure \ shared_with_siblings)

\* calculate_added_sizes: the loop over graph.paths, writing added_size.
calculate_added_sizes(st, g) ==
    LET loop[i \in 0..Len(g.paths)] ==
            IF i = 0 THEN st
            ELSE LET path == g.paths[i]
                     added_size == added_size_of(loop[i - 1], g, path)
                 IN  IF path \in DOMAIN loop[i - 1]
                     THEN [loop[i - 1] EXCEPT ![path].added_size = added_size]
                     ELSE loop[i - 1]
    IN  loop[Len(g.paths)]

\* calculate_stats: closure_size and immediate_parents of every path, with one
\* closure cache shared by the loop, then calculate_added_sizes.
\* ok = FALSE stands for the stack overflow of calculate_closure.
calculate_stats(g) ==
    LET loop[i \in 0..Len(g.paths)] ==
            IF i = 0
            THEN [stats |-> <<>>, cache |-> <<>>, overflow |-> FALSE]
            ELSE LET acc == loop[i - 1]
                     path == g.paths[i]
                 IN  IF acc.overflow THEN acc
                     ELSE LET c == calculate_closure(g, path, acc.cache, 1)
                              entry == [closure_size |-> SumNarSize(g, c.closure),
                                        added_size |-> 0,
                                        immediate_parents |-> get_referrers(g, path)]
                          IN  [stats |-> [x \in DOMAIN acc.stats \cup {path} |->
                                             IF x = path THEN entry ELSE acc.stats[x]],
                               cache |-> c.cache,
                               overflow |-> c.overflow]
        done == loop[Len(g.paths)]
    IN  IF done.overflow
        THEN [ok |-> FALSE, stats |-> <<>>]
        ELSE [ok |-> TRUE, stats |-> calculate_added_sizes(done.stats, g)]

\* The traversal that calculate_added_size_for_path (ui/widgets.rs) writes
\* out twice: a stack popped from the end and a visited set, a reference
\* being pushed only if it is not in the set yet.
RECURSIVE lazy_closure_loop(_, _, _)
lazy_closure_loop(g, to_visit, closure) ==
    IF to_visit = <<>> THEN closure
    ELSE LET current == to_visit[Len(to_visit)]
             rest == SubSeq(to_visit, 1, Len(to_visit) - 1)
             seen == closure \cup {current}
         IN  IF current \notin closure
             THEN lazy_closure_loop(
                      g,
                      rest \o SelectSeq(References(g, current),
                                        LAMBDA r : r \notin seen),
                      seen)
             ELSE lazy_closure_loop(g, rest, closure)

\* calculate_added_size_for_path with a fault, for comparison: the closures
\* of the siblings are not taken out.
added_size_for_path_whole(path, g, st) ==
    IF ~HasPath(g, path) THEN 0
    ELSE SumNarSize(g, lazy_closure_loop(g, <<path>>, {}))

\* calculate_added_size_for_path (ui/widgets.rs): the added size of one path,
\* computed when the status bar needs it.
calculate_added_size_for_path(path, g, st) ==
    IF ~HasPath(g, path) THEN 0
    ELSE LET closure == lazy_closure_loop(g, <<path>>, {})
             parents == IF path \in DOMAIN st
                        THEN Range(st[path].immediate_parents) ELSE {}
             siblings ==
                 UNION {Range(References(g, parent)) \ {path} :
                           parent \in {q \in parents : HasPath(g, q)}}
             shared_with_siblings ==
                 UNION {lazy_closure_loop(g, <<s>>, {}) : s \in siblings}
         IN  SumNarSize(g, closure \ shared_with_siblings)

\* The table calculate_stats hands over to calculate_added_sizes, closure
\* sizes left out: the immediate parents of every path, added_size still 0.
ParentsTable(g) ==
    [p \in Range(g.paths) |->
        [closure_size |-> 0, added_size |-> 0,
         immediate_parents |-> get_referrers(g, p)]]

\* SortOrder::next
SortOrderNext(order) ==
    CASE order = "Alphabetical" -> "ClosureSize"
      [] order = "ClosureSize" -> "AddedSize"
      [] order = "AddedSize" -> "Alphabetical"

SortOrders == {"Alphabetical", "ClosureSize", "AddedSize"}

\* Ord::cmp on integers: "Less", "Equal" or "Greater".
Cmp(x, y) == IF x < y THEN "Less" ELSE IF x = y THEN "Equal" ELSE "Greater"

\* compare with a fault, for comparison: sizes are compared in ascending
\* order.
compare_ascending(st, order, a, b) ==
    CASE order = "Alphabetical" -> Cmp(a, b)
      [] order = "ClosureSize" ->
            Cmp(IF a \in DOMAIN st THEN st[a].closure_size ELSE 0,
                IF b \in DOMAIN st THEN st[b].closure_size ELSE 0)
      [] order = "AddedSize" ->
            Cmp(IF a \in DOMAIN st THEN st[a].added_size ELSE 0,
                IF b \in DOMAIN st THEN st[b].added_size ELSE 0)

\* The comparator closure of sort_paths.
compare(st, order, a, b) ==
    CASE order = "Alphabetical" -> Cmp(a, b)
      [] order = "ClosureSize" ->
            LET size_a == IF a \in DOMAIN st THEN st[a].closure_size ELSE 0
                size_b == IF b \in DOMAIN st THEN st[b].closure_size ELSE 0
            IN  Cmp(size_b, size_a)
      [] order = "AddedSize" ->
            LET size_a == IF a \in DOMAIN st THEN st[a].added_size ELSE 0
                size_b == IF b \in DOMAIN st THEN st[b].added_size ELSE 0
            IN  Cmp(size_b, size_a)

\* slice::sort_by is a stable sort: its result is the one a stable insertion
\* sort gives, each element placed after the elements that do not compare
\* Greater than it.
RECURSIVE stable_insert(_, _, _, _)
stable_insert(st, order, sorted, x) ==
    IF sorted = <<>> THEN <<x>>
    ELSE IF compare(st, order, Head(sorted), x) = "Greater"
    THEN <<x>> \o sorted
    ELSE <<Head(sorted)>> \o stable_insert(st, order, Tail(sorted), x)

\* sort_paths
sort_paths(paths, st, order) ==
    LET loop[i \in 0..Len(paths)] ==
            IF i = 0 THEN <<>>
            ELSE stable_insert(st, order, loop[i - 1], paths[i])
    IN  loop[Len(paths)]

-----------------------------------------------------------------------------
(* Inputs: the graphs query_path_info can return *)

\* narSize tables: the sizes of the documented scenario (R=10, A=20, B=15,
\* C=5 for paths 1..4) and powers of two, under which a sum determines the
\* set that was summed.
ScenarioSize(i) == CASE i = 1 -> 10 [] i = 2 -> 20 [] i = 3 -> 15 [] OTHER -> 5
PowerSize(i) == 2 ^ (i - 1)
SizeTables == {[i \in Ids |-> ScenarioSize(i)], [i \in Ids |-> PowerSize(i)]}

\* Display names (unique, as disambiguate_names leaves them): "sQ", "Qs",
\* "q", "Ss", and "qqq", "qqqq", ... for the paths after the fourth.
NameOf(i) == CASE i = 1 -> <<"s", "Q">> [] i = 2 -> <<"Q", "s">>
               [] i = 4 -> <<"S", "s">> [] OTHER -> [j \in 1..(i - 2) |-> "q"]
Names == [i \in Ids |-> NameOf(i)]

\* The graph with the references E (pairs <<from, to>>), every path of Ids
\* present; asc tells whether graph.paths and each references list are in
\* ascending or in descending order.
GraphOf(E, sizes, asc, roots) ==
    LET ord(S) == IF asc THEN Ascending(S) ELSE Reverse(Ascending(S))
    IN  [paths |-> ord(Ids),
         references |-> [p \in Ids |-> ord({e[2] : e \in {x \in E : x[1] = p}})],
         nar_size |-> sizes,
         name |-> Names,
         roots |-> roots]

\* The graphs with at most MaxEdges references, cyclic ones and references
\* to an absent identifier included, in which the paths that have references
\* are 1..k for some k (every graph is such a graph up to the naming of its
\* paths, which path_stats.rs never looks at).
StatsGraphs ==
    {GraphOf(E, sizes, TRUE, Ascending(Ids)) :
        E \in {X \in SubsetsUpTo(Ids \X AllIds, MaxEdges) :
                  \A e \in X : \A p \in 1..(e[1] - 1) : \E d \in X : d[1] = p},
        sizes \in SizeTables}

NoApp == [exists |-> FALSE]

\* The terminal before run_tui has touched it: cooked mode, main screen, and
\* neither the result of run_app nor the return value of run_tui in hand.
NoTerm == [raw_mode |-> FALSE, alt_screen |-> FALSE,
           result |-> "none", returned |-> "none"]

\* main before it has called nix: no call made, no error returned.
NoStartup == [resolve |-> "none", query |-> "none", error |-> "none"]

\* main once query_path_info has returned Ok: both calls of nix succeeded.
StartedUp == [resolve |-> "ok", query |-> "ok", error |-> "none"]

\* The terminal while run_app runs: raw mode and the alternate screen are on.
TuiTerm == [NoTerm EXCEPT !.raw_mode = TRUE, !.alt_screen = TRUE]

-----------------------------------------------------------------------------
(* SpecStats: main up to calculate_stats (main.rs lines 50-54) *)

InitStats ==
    /\ pc = "loaded"
    /\ graph \in StatsGraphs
    /\ stats = <<>>
    /\ app = NoApp
    /\ sort_in = <<>>
    /\ sort_order = "Alphabetical"
    /\ sort_out = <<>>
    /\ sort_calls = 0
    /\ term = NoTerm
    /\ startup = StartedUp

\* let stats = path_stats::calculate_stats(&graph);
CalculateStats ==
    /\ pc = "loaded"
    /\ LET r == calculate_stats(graph)
       IN  /\ pc' = IF r.ok THEN "stats" ELSE "crashed"
           /\ stats' = r.stats
    /\ UNCHANGED <<graph, app, sort_in, sort_order, sort_out, sort_calls, term, startup>>

NextStats == CalculateStats

SpecStats == InitStats /\ [][NextStats]_vars

-----------------------------------------------------------------------------
(* SpecSort: sort_paths applied to slices of identifiers *)

\* The graphs with at most one reference on which calculate_stats completes.
SortGraphs ==
    {g \in {GraphOf(E, sizes, TRUE, Ascending(Ids)) :
               E \in SubsetsUpTo(Ids \X AllIds, 1), sizes \in SizeTables} :
        calculate_stats(g).ok}

InitSort ==
    /\ pc = "stats"
    /\ graph \in SortGraphs
    /\ stats = calculate_stats(graph).stats
    /\ app = NoApp
    /\ sort_in \in SeqsUpTo(AllIds, MaxSortLen)
    /\ sort_order \in SortOrders
    /\ sort_out = sort_in
    /\ sort_calls = 0
    /\ term = NoTerm
    /\ startup = StartedUp

\* sort_paths(&mut paths, &stats, order) on a slice of present and absent
\* identifiers, repetitions included.
SortPaths ==
    /\ pc = "stats"
    /\ sort_calls < MaxSortCalls
    /\ sort_out' = sort_paths(sort_out, stats, sort_order)
    /\ sort_calls' = sort_calls + 1
    /\ UNCHANGED <<pc, graph, stats, app, sort_in, sort_order, term, startup>>

NextSort == SortPaths

SpecSort == InitSort /\ [][NextSort]_vars

-----------------------------------------------------------------------------
(* Navigator (ui/app.rs) *)

\* Option::None, for ListState::selected() and current_path.
None == -1

\* What a subtraction of usize below zero leaves behind (a panic of the debug
\* build, a wrapped value of the release build): not an index of any list.
Underflow == -2

\* x - y on usize
usize_sub(x, y) == IF x >= y THEN x - y ELSE Underflow

Panes == {"Previous", "Current", "Next"}

\* Pane::previous
PanePrevious(pane) ==
    CASE pane = "Previous" -> "Previous"
      [] pane = "Current" -> "Previous"
      [] pane = "Next" -> "Current"

\* The ListState and the list of a pane (the two matches of move_down).
StateOf(a, pane) ==
    CASE pane = "Previous" -> a.previous_state
      [] pane = "Current" -> a.current_state
      [] pane = "Next" -> a.next_state

ItemsOf(a, pane) ==
    CASE pane = "Previous" -> a.previous_items
      [] pane = "Current" -> a.current_items
      [] pane = "Next" -> a.next_items

\* state.select(Some(i)) on the ListState of a pane.
Select(a, pane, i) ==
    CASE pane = "Previous" -> [a EXCEPT !.previous_state = i]
      [] pane = "Current" -> [a EXCEPT !.current_state = i]
      [] pane = "Next" -> [a EXCEPT !.next_state = i]

\* state.selected().and_then(|i| items.get(i)).cloned(), indices from 0.
SelectedItem(state, items) ==
    IF state \in 0..(Len(items) - 1) THEN items[state + 1] ELSE None

\* update_panes with a fault, for comparison: the side panes are filled in
\* the order the graph hands the items over, without sorting.
update_panes_unsorted(a) ==
    LET selected_path ==
            SelectedItem(StateOf(a, a.active_pane), ItemsOf(a, a.active_pane))
    IN  IF selected_path = None THEN a
        ELSE IF a.active_pane = "Current"
        THEN [a EXCEPT
                !.current_path = selected_path,
                !.previous_items =
                    IF selected_path \in DOMAIN stats
                    THEN stats[selected_path].immediate_parents
                    ELSE <<>>,
                !.next_items = get_references(graph, selected_path),
                !.previous_state = None,
                !.next_state = None]
        ELSE [a EXCEPT !.current_path = selected_path]

\* update_panes with another fault, for comparison: the cursor of a side
\* pane that is not empty is put on index 0.
update_panes_select_first(a) ==
    LET selected_path ==
            SelectedItem(StateOf(a, a.active_pane), ItemsOf(a, a.active_pane))
        previous == sort_paths(IF selected_path \in DOMAIN stats
                               THEN stats[selected_path].immediate_parents
                               ELSE <<>>,
                               stats, a.sort_order)
        next == sort_paths(get_references(graph, selected_path), stats,
                           a.sort_order)
    IN  IF selected_path = None THEN a
        ELSE IF a.active_pane = "Current"
        THEN [a EXCEPT
                !.current_path = selected_path,
                !.previous_items = previous,
                !.next_items = next,
                !.previous_state = IF previous # <<>> THEN 0 ELSE None,
                !.next_state = IF next # <<>> THEN 0 ELSE None]
        ELSE [a EXCEPT !.current_path = selected_path]

\* App::update_panes
update_panes(a) ==
    LET selected_path ==
            SelectedItem(StateOf(a, a.active_pane), ItemsOf(a, a.active_pane))
    IN  IF selected_path = None THEN a
        ELSE IF a.active_pane = "Current"
        THEN [a EXCEPT
                !.current_path = selected_path,
                !.previous_items =
                    sort_paths(IF selected_path \in DOMAIN stats
                               THEN stats[selected_path].immediate_parents
                               ELSE <<>>,
                               stats, a.sort_order),
                !.next_items =
                    sort_paths(get_references(graph, selected_path), stats,
                               a.sort_order),
                !.previous_state = None,
                !.next_state = None]
        ELSE [a EXCEPT !.current_path = selected_path]

\* App::new
AppNew ==
    LET a == [sort_order |-> "Alphabetical",
              active_pane |-> "Current",
              show_help |-> FALSE,
              searching |-> FALSE,
              search_query |-> <<>>,
              previous_state |-> None,
              current_state |-> None,
              next_state |-> None,
              previous_items |-> <<>>,
              current_items |-> sort_paths(graph.roots, stats, "Alphabetical"),
              next_items |-> <<>>,
              current_path |-> None]
    IN  IF a.current_items # <<>>
        THEN update_panes([a EXCEPT !.current_state = 0])
        ELSE a

\* move_down with a fault, for comparison: the cursor is not held back at the
\* last index.
move_down_unclamped(a) ==
    LET state == StateOf(a, a.active_pane)
        items == ItemsOf(a, a.active_pane)
    IN  IF items # <<>>
        THEN update_panes(Select(a, a.active_pane,
                                 IF state # None THEN state + 1 ELSE 0))
        ELSE a

\* App::move_down
move_down(a) ==
    LET state == StateOf(a, a.active_pane)
        items == ItemsOf(a, a.active_pane)
    IN  IF items # <<>>
        THEN LET last == usize_sub(Len(items), 1)
                 i == IF state # None
                      THEN (IF state + 1 < last THEN state + 1 ELSE last)
                      ELSE 0
             IN  update_panes(Select(a, a.active_pane, i))
        ELSE a

\* move_up with a fault, for comparison: the test i > 0 is missing.
move_up_unguarded(a) ==
    LET state == StateOf(a, a.active_pane)
    IN  IF state # None
        THEN update_panes(Select(a, a.active_pane, usize_sub(state, 1)))
        ELSE a

\* App::move_up
move_up(a) ==
    LET state == StateOf(a, a.active_pane)
    IN  IF state # None /\ state > 0
        THEN update_panes(Select(a, a.active_pane, usize_sub(state, 1)))
        ELSE a

\* move_left with a fault, for comparison: the focus jumps to the previous
\* pane from wherever it is.
move_left_jump(a) ==
    IF a.active_pane # "Previous"
    THEN [a EXCEPT !.active_pane = "Previous"]
    ELSE a

\* App::move_left
move_left(a) ==
    IF a.active_pane # "Previous"
    THEN [a EXCEPT !.active_pane = PanePrevious(a.active_pane)]
    ELSE a

\* move_right with a fault, for comparison: the descend replaces the current
\* list by the next one and keeps no record of the list it leaves.
move_right_replace(a) ==
    IF a.active_pane = "Current" /\ a.current_state # None /\ a.next_items # <<>>
    THEN update_panes([a EXCEPT !.current_items = a.next_items,
                                !.current_state = 0])
    ELSE a

\* move_right with another fault, for comparison: the cursor of the next
\* pane is put on index 0 whether or not the pane already had one.
move_right_reset(a) ==
    IF a.active_pane = "Current" /\ a.current_state # None
    THEN IF a.next_items # <<>>
         THEN [a EXCEPT !.active_pane = "Next", !.next_state = 0]
         ELSE a
    ELSE IF a.active_pane = "Previous" /\ a.previous_state # None
    THEN [a EXCEPT !.active_pane = "Current"]
    ELSE a

\* App::move_right
move_right(a) ==
    IF a.active_pane = "Current" /\ a.current_state # None
    THEN IF a.next_items # <<>>
         THEN [a EXCEPT !.active_pane = "Next",
                        !.next_state = IF a.next_state = None THEN 0
                                       ELSE a.next_state]
         ELSE a
    ELSE IF a.active_pane = "Previous" /\ a.previous_state # None
    THEN [a EXCEPT !.active_pane = "Current"]
    ELSE a

\* resort_current_pane with a fault, for comparison: as its name says, only
\* the current pane is sorted again.
resort_current_only(a) ==
    [a EXCEPT !.current_items = sort_paths(a.current_items, stats, a.sort_order)]

\* App::resort_current_pane
resort_current_pane(a) ==
    [a EXCEPT !.current_items = sort_paths(a.current_items, stats, a.sort_order),
              !.previous_items = sort_paths(a.previous_items, stats, a.sort_order),
              !.next_items = sort_paths(a.next_items, stats, a.sort_order)]

\* char::to_lowercase on the characters of names and queries.
LowerChar(c) == CASE c = "S" -> "s" [] c = "Q" -> "q" [] OTHER -> c

\* str::to_lowercase
to_lowercase(str) == [i \in 1..Len(str) |-> LowerChar(str[i])]

\* str::contains
contains(str, pat) ==
    \E i \in 1..(Len(str) - Len(pat) + 1) : SubSeq(str, i, i + Len(pat) - 1) = pat

\* The filter of perform_search: the paths of the whole graph whose name
\* contains the query, both lowercased, in the order of graph.paths.
matching_paths(query) ==
    SelectSeq(graph.paths,
              LAMBDA p : contains(to_lowercase(graph.name[p]), to_lowercase(query)))

\* perform_search with a fault, for comparison: the test that something
\* matched is missing.
perform_search_unguarded(a) ==
    IF a.search_query = <<>> THEN a
    ELSE update_panes([a EXCEPT
             !.current_items =
                 sort_paths(matching_paths(a.search_query), stats, a.sort_order),
             !.current_state = 0,
             !.active_pane = "Current"])

\* App::perform_search
perform_search(a) ==
    IF a.search_query = <<>> THEN a
    ELSE LET matching == matching_paths(a.search_query)
         IN  IF matching # <<>>
             THEN update_panes([a EXCEPT
                      !.current_items = sort_paths(matching, stats, a.sort_order),
                      !.current_state = 0,
                      !.active_pane = "Current"])
             ELSE a

\* KeyCode: the named keys, Tab standing for any key without a binding, and
\* KeyCode::Char(c) written as the one-character string c.
Chars == {"q", "?", "/", "s", "S", "j", "k", "h", "l"}
KeyCodes == {"Esc", "Enter", "Backspace", "Down", "Up", "Left", "Right", "Tab"}
                \cup Chars

\* App::handle_key: the App after the key and the Ok(bool) returned.
handle_key(a, k) ==
    IF a.searching
    THEN [quit |-> FALSE,
          app |-> CASE k = "Esc" ->
                         [a EXCEPT !.searching = FALSE, !.search_query = <<>>]
                    [] k = "Enter" ->
                         perform_search([a EXCEPT !.searching = FALSE])
                    [] k = "Backspace" ->
                         [a EXCEPT !.search_query =
                             IF a.search_query = <<>> THEN <<>>
                             ELSE SubSeq(a.search_query, 1, Len(a.search_query) - 1)]
                    [] k \in Chars ->
                         [a EXCEPT !.search_query = Append(a.search_query, k)]
                    [] OTHER -> a]
    ELSE IF k \in {"q", "Esc"} THEN [quit |-> TRUE, app |-> a]
    ELSE [quit |-> FALSE,
          app |-> CASE k = "?" -> [a EXCEPT !.show_help = ~a.show_help]
                    [] k = "/" ->
                         [a EXCEPT !.searching = TRUE, !.search_query = <<>>]
                    [] k = "s" ->
                         resort_current_pane(
                             [a EXCEPT !.sort_order = SortOrderNext(a.sort_order)])
                    [] k \in {"Down", "j"} -> move_down(a)
                    [] k \in {"Up", "k"} -> move_up(a)
                    [] k \in {"Left", "h"} -> move_left(a)
                    [] k \in {"Right", "l", "Enter"} -> move_right(a)
                    [] OTHER -> a]

-----------------------------------------------------------------------------
(* Spec: the input loop of run_app (main.rs) driving the Navigator *)

\* The references of the graphs the Navigator is started on: the diamond
\* 1->2, 1->3, 2->4, 3->4 with a reference from 4 to an absent identifier,
\* and what is left of it when one reference is taken away; with the sizes
\* of the scenario the lists come in ascending order, with powers of two in
\* descending order.
NavEdges == {<<1, 2>>, <<1, 3>>, <<2, 4>>, <<3, 4>>, <<4, 0>>}

\* query_path_info returns the closure of the roots; the roots are taken to
\* be the paths nothing refers to.
RootsOf(E) == Ascending({p \in Ids : \A e \in E : e[2] # p})

NavGraphs ==
    {GraphOf(NavEdges \ X, [i \in Ids |-> IF asc THEN ScenarioSize(i) ELSE PowerSize(i)],
             asc, RootsOf(NavEdges \ X)) :
        X \in SubsetsUpTo(NavEdges, 1), asc \in BOOLEAN}

\* The characters typed into the search box.
TypedChars == {"q", "S"}

Init ==
    /\ pc = "tui"
    /\ graph \in NavGraphs
    /\ stats = calculate_stats(graph).stats
    /\ app = AppNew
    /\ sort_in = <<>>
    /\ sort_order = "Alphabetical"
    /\ sort_out = <<>>
    /\ sort_calls = 0
    /\ term = TuiTerm
    /\ startup = StartedUp

\* One iteration of the loop of run_app that reads a key event: handle_key,
\* and break when it returns true.
HandleKey ==
    /\ pc = "tui"
    /\ \E k \in KeyCodes :
          /\ (app.searching /\ k \in Chars) =>
                 (k \in TypedChars /\ Len(app.search_query) < MaxQuery)
          /\ app' = handle_key(app, k).app
          /\ pc' = IF handle_key(app, k).quit THEN "done" ELSE "tui"
    /\ UNCHANGED <<graph, stats, sort_in, sort_order, sort_out, sort_calls, term, startup>>

Next == HandleKey

Spec == Init /\ [][Next]_vars

-----------------------------------------------------------------------------
(* SpecTui: run_tui (main.rs lines 59-80) around the loop of run_app; every *)
(* call followed by `?` either succeeds or makes the function return Err.   *)

\* The graph run_tui is started on: the whole diamond with the scenario sizes.
TuiGraphs ==
    {GraphOf(NavEdges, [i \in Ids |-> ScenarioSize(i)], TRUE, RootsOf(NavEdges))}

InitTui ==
    /\ pc = "run_tui"
    /\ graph \in TuiGraphs
    /\ stats = calculate_stats(graph).stats
    /\ app = NoApp
    /\ sort_in = <<>>
    /\ sort_order = "Alphabetical"
    /\ sort_out = <<>>
    /\ sort_calls = 0
    /\ term = NoTerm
    /\ startup = StartedUp

\* The early return of a failed `?`.
ReturnErr(t) == [t EXCEPT !.returned = "Err"]

\* enable_raw_mode()?;
EnableRawMode ==
    /\ pc = "run_tui"
    /\ \E ok \in BOOLEAN :
          IF ok THEN /\ term' = [term EXCEPT !.raw_mode = TRUE]
                     /\ pc' = "enter_alt"
                ELSE /\ term' = ReturnErr(term)
                     /\ pc' = "returned"
    /\ UNCHANGED <<graph, stats, app, sort_in, sort_order, sort_out, sort_calls, startup>>

\* execute!(stdout, EnterAlternateScreen, EnableMouseCapture)?; a failed
\* write may or may not have switched the screen.
EnterAlternateScreen ==
    /\ pc = "enter_alt"
    /\ \E ok \in BOOLEAN, alt \in BOOLEAN :
          IF ok THEN /\ alt
                     /\ term' = [term EXCEPT !.alt_screen = TRUE]
                     /\ pc' = "terminal_new"
                ELSE /\ term' = ReturnErr([term EXCEPT !.alt_screen = alt])
                     /\ pc' = "returned"
    /\ UNCHANGED <<graph, stats, app, sort_in, sort_order, sort_out, sort_calls, startup>>

\* let mut terminal = Terminal::new(backend)?; then run_app starts with
\* App::new.
TerminalNew ==
    /\ pc = "terminal_new"
    /\ \E ok \in BOOLEAN :
          IF ok THEN /\ term' = term
                     /\ app' = AppNew
                     /\ pc' = "tui"
                ELSE /\ term' = ReturnErr(term)
                     /\ app' = app
                     /\ pc' = "returned"
    /\ UNCHANGED <<graph, stats, sort_in, sort_order, sort_out, sort_calls, startup>>

\* terminal.draw(..)?, event::poll(..)? or event::read()? fails inside the
\* loop: run_app returns Err.
LoopError ==
    /\ pc = "tui"
    /\ pc' = "failed"
    /\ UNCHANGED <<graph, stats, app, sort_in, sort_order, sort_out, sort_calls, term, startup>>

\* let result = run_app(&mut terminal, graph, stats).await;
RunAppReturns ==
    /\ pc \in {"done", "failed"}
    /\ term' = [term EXCEPT !.result = IF pc = "done" THEN "Ok" ELSE "Err"]
    /\ pc' = "disable_raw"
    /\ UNCHANGED <<graph, stats, app, sort_in, sort_order, sort_out, sort_calls, startup>>

\* disable_raw_mode()?;
DisableRawMode ==
    /\ pc = "disable_raw"
    /\ \E ok \in BOOLEAN :
          IF ok THEN /\ term' = [term EXCEPT !.raw_mode = FALSE]
                     /\ pc' = "leave_alt"
                ELSE /\ term' = ReturnErr(term)
                     /\ pc' = "returned"
    /\ UNCHANGED <<graph, stats, app, sort_in, sort_order, sort_out, sort_calls, startup>>

\* execute!(terminal.backend_mut(), LeaveAlternateScreen, DisableMouseCapture)?;
LeaveAlternateScreen ==
    /\ pc = "leave_alt"
    /\ \E ok \in BOOLEAN, alt \in BOOLEAN :
          IF ok THEN /\ ~alt
                     /\ term' = [term EXCEPT !.alt_screen = FALSE]
                     /\ pc' = "show_cursor"
                ELSE /\ term' = ReturnErr([term EXCEPT !.alt_screen = alt])
                     /\ pc' = "returned"
    /\ UNCHANGED <<graph, stats, app, sort_in, sort_order, sort_out, sort_calls, startup>>

\* terminal.show_cursor()?; result
ShowCursor ==
    /\ pc = "show_cursor"
    /\ \E ok \in BOOLEAN :
          term' = IF ok THEN [term EXCEPT !.returned = "result"]
                       ELSE ReturnErr(term)
    /\ pc' = "returned"
    /\ UNCHANGED <<graph, stats, app, sort_in, sort_order, sort_out, sort_calls, startup>>

NextTui ==
    \/ EnableRawMode
    \/ EnterAlternateScreen
    \/ TerminalNew
    \/ HandleKey
    \/ LoopError
    \/ RunAppReturns
    \/ DisableRawMode
    \/ LeaveAlternateScreen
    \/ ShowCursor

SpecTui == InitTui /\ [][NextTui]_vars

-----------------------------------------------------------------------------
(* SpecMain: main (main.rs lines 50-56) from the first call of nix on:      *)
(* query_path_info with its two external commands, calculate_stats, run_tui *)

\* What an external command can come to: success, or one of the failures
\* that resolve_paths and query_path_info turn into an Err (the command
\* cannot be spawned, exits with a non-zero status, prints invalid UTF-8, or
\* prints malformed JSON).
Failures == {"spawn", "status", "utf8", "json"}
Outcomes == {"ok"} \cup Failures

\* The graphs nix is taken to describe: the whole diamond, and the diamond
\* closed into a cycle, on which calculate_stats aborts.
MainGraphs ==
    TuiGraphs
        \cup {GraphOf(NavEdges \cup {<<4, 1>>}, [i \in Ids |-> ScenarioSize(i)],
                      TRUE, <<1>>)}

\* The graph before query_path_info has built one.
NoGraph ==
    [paths |-> <<>>, references |-> <<>>, nar_size |-> <<>>, name |-> <<>>,
     roots |-> <<>>]

InitMain ==
    /\ pc = "main"
    /\ graph = NoGraph
    /\ stats = <<>>
    /\ app = NoApp
    /\ sort_in = <<>>
    /\ sort_order = "Alphabetical"
    /\ sort_out = <<>>
    /\ sort_calls = 0
    /\ term = NoTerm
    /\ startup = NoStartup

\* `?` with a fault, for comparison: the Err is dropped and main goes on.
after_call_ignored(outcome, next) == next

\* `?` on the Result an external command comes to: go on on Ok, return the
\* Err from main otherwise.
after_call(outcome, next) == IF outcome = "ok" THEN next ELSE "exited"

\* query_path_info starts with resolve_paths, which issues the first command:
\* cmd.output()
IssueResolve ==
    /\ pc = "main"
    /\ pc' = "resolving"
    /\ startup' = [startup EXCEPT !.resolve = "issued"]
    /\ UNCHANGED <<graph, stats, app, sort_in, sort_order, sort_out, sort_calls, term>>

\* resolve_paths returns: .await.context(..)?, the status test, from_utf8(..)?
\* and from_str(..)?, and the `?` of query_path_info and of main on the result.
ResolveReturns ==
    /\ pc = "resolving"
    /\ \E outcome \in Outcomes :
          /\ pc' = after_call(outcome, "resolved")
          /\ startup' = [startup EXCEPT
                            !.resolve = outcome,
                            !.error = IF outcome = "ok" THEN "none" ELSE outcome]
    /\ UNCHANGED <<graph, stats, app, sort_in, sort_order, sort_out, sort_calls, term>>

\* query_path_info issues the second command on the resolved paths.
IssueQuery ==
    /\ pc = "resolved"
    /\ pc' = "querying"
    /\ startup' = [startup EXCEPT !.query = "issued"]
    /\ UNCHANGED <<graph, stats, app, sort_in, sort_order, sort_out, sort_calls, term>>

\* query_path_info returns: the same tests on the second command, the graph
\* built from its output, and the `?` of main on the result.
QueryReturns ==
    /\ pc = "querying"
    /\ \E outcome \in Outcomes, g \in MainGraphs :
          /\ pc' = after_call(outcome, "loaded")
          /\ graph' = IF outcome = "ok" THEN g ELSE graph
          /\ startup' = [startup EXCEPT
                            !.query = outcome,
                            !.error = IF outcome = "ok" THEN "none" ELSE outcome]
    /\ UNCHANGED <<stats, app, sort_in, sort_order, sort_out, sort_calls, term>>

\* run_tui(graph, stats).await
RunTui ==
    /\ pc = "stats"
    /\ pc' = "run_tui"
    /\ UNCHANGED <<graph, stats, app, sort_in, sort_order, sort_out, sort_calls, term, startup>>

NextMain ==
    \/ IssueResolve
    \/ ResolveReturns
    \/ IssueQuery
    \/ QueryReturns
    \/ CalculateStats
    \/ RunTui
    \/ NextTui

SpecMain == InitMain /\ [][NextMain]_vars

-----------------------------------------------------------------------------
(* Claims about the analytics engine, checked under SpecStats *)

\* The identifiers reachable from n through outgoing references, n included,
\* as a least fixed point (independent of the traversals of path_stats.rs).
ReachStep(g, S) ==
    S \cup {r \in AllIds : \E p \in S \cap Ids : r \in Range(g.references[p])}

RECURSIVE ReachIter(_, _, _)
ReachIter(g, S, k) == IF k = 0 THEN S ELSE ReachIter(g, ReachStep(g, S), k - 1)

Reachable(g, n) == ReachIter(g, {n}, NumIds + 1)

\* Total own size of the artifacts of S that are present in the store.
TotalOwnSize(g, S) ==
    LET f[i \in -1..NumIds] ==
            IF i = -1 THEN 0
            ELSE f[i - 1] + (IF i \in S /\ i \in Ids THEN g.nar_size[i] ELSE 0)
    IN  f[NumIds]

Acyclic(g) ==
    \A n \in Ids : \A r \in Range(g.references[n]) : n \notin Reachable(g, r)

\* The diamond 1->2, 1->3, 2->4, 3->4 (A->B, A->C, B->D, C->D; also the
\* scenario R->{A,B}, A->{C}, B->{C}), no other reference.
IsDiamond(g) ==
    /\ g.references[1] = <<2, 3>>
    /\ g.references[2] = <<4>>
    /\ g.references[3] = <<4>>
    /\ \A p \in Ids \ {1, 2, 3} : g.references[p] = <<>>

\* C1: on every acyclic graph calculate_stats completes and the closure_size
\* it stores for each node is the total own size of the distinct artifacts
\* reachable from the node, the node included and absent identifiers counting
\* zero; a node without references has its own size, and in the diamond the
\* shared node 4 is counted once in the closure of node 1.
C1_ClosureSize ==
    (pc # "loaded" /\ Acyclic(graph)) =>
        /\ pc = "stats"
        /\ \A n \in Ids :
              /\ stats[n].closure_size = TotalOwnSize(graph, Reachable(graph, n))
              /\ graph.references[n] = <<>> =>
                     stats[n].closure_size = graph.nar_size[n]
        /\ IsDiamond(graph) =>
               stats[1].closure_size =
                   graph.nar_size[1] + graph.nar_size[2] + graph.nar_size[3]
                       + graph.nar_size[4]

\* Witness of C1: stats computed for the diamond with power-of-two sizes;
\* closure_size(1) = 1 + 2 + 4 + 8.
C1_Witness ==
    /\ pc = "stats"
    /\ IsDiamond(graph)
    /\ graph.nar_size[4] = 8
    /\ stats[1].closure_size = 15
    /\ stats[4].closure_size = 8

\* C2: after calculate_stats, 0 <= added_size(n) <= closure_size(n) for every
\* node n.
C2_AddedSizeBound ==
    pc = "stats" =>
        \A n \in Ids :
            /\ 0 <= stats[n].added_size
            /\ stats[n].added_size <= stats[n].closure_size

\* Witness of C2: a node whose added size lies strictly between 0 and its
\* closure size, next to one whose added size is 0 although it is not empty.
C2_Witness ==
    /\ pc = "stats"
    /\ \E n \in Ids : 0 < stats[n].added_size
                      /\ stats[n].added_size < stats[n].closure_size
    /\ \E n \in Ids : stats[n].added_size = 0 /\ stats[n].closure_size > 0

IsScenario(g) == IsDiamond(g) /\ g.nar_size = [i \in Ids |-> ScenarioSize(i)]

\* C3 as stated: in the scenario R->{A,B}, A->{C}, B->{C} with sizes 10, 20,
\* 15, 5 (R, A, B, C = 1, 2, 3, 4), added_size(C) = 0.
C3_Original ==
    (pc = "stats" /\ IsScenario(graph)) => stats[4].added_size = 0

\* C3 as amended: in that scenario added_size(C) = 5, the own size of C: the
\* immediate parents A and B of C reference nothing but C, so C has no sibling
\* and nothing is subtracted; the sharing shows in A and B, whose added sizes
\* 20 and 15 leave C out.
C3_Amended ==
    (pc = "stats" /\ IsScenario(graph)) =>
        /\ stats[4].added_size = 5
        /\ stats[2].added_size = 20
        /\ stats[3].added_size = 15
        /\ stats[1].added_size = 50

\* Witness of C3: stats computed for the scenario, with the closure sizes
\* the scenario expects.
C3_Witness ==
    /\ pc = "stats"
    /\ IsScenario(graph)
    /\ stats[4].added_size = 5
    /\ stats[1].closure_size = 50
    /\ stats[2].closure_size = 25
    /\ stats[3].closure_size = 20
    /\ stats[4].closure_size = 5

\* C4 as stated: the closure computation of calculate_stats terminates on
\* every graph, self references and reference cycles included: main never
\* ends in the stack overflow of calculate_closure.
C4_Terminates == pc # "crashed"

\* What holds instead: calculate_stats completes exactly on the acyclic graphs.
C4_CrashesIffCyclic ==
    pc # "loaded" => (pc = "crashed" <=> ~Acyclic(graph))

-----------------------------------------------------------------------------
(* Claims about sort_paths, checked under SpecSort *)

\* The stat a size order sorts by, 0 when the identifier has no stats.
SortKey(st, order, p) ==
    IF p \notin DOMAIN st THEN 0
    ELSE IF order = "ClosureSize" THEN st[p].closure_size
    ELSE st[p].added_size

\* Elements that the order does not tell apart.
Tied(st, order, a, b) ==
    IF order = "Alphabetical" THEN a = b
    ELSE SortKey(st, order, a) = SortKey(st, order, b)

\* out is a rearrangement of in that keeps tied elements in input order: for
\* every class of tied elements, the elements of the class occur in out in
\* the very sequence in which they occur in in.
StablePermutation(st, order, in, out) ==
    /\ Len(out) = Len(in)
    /\ \A x \in Range(in) \cup Range(out) :
          SelectSeq(out, LAMBDA y : Tied(st, order, x, y))
              = SelectSeq(in, LAMBDA y : Tied(st, order, x, y))

\* C9: after sort_paths the slice is a permutation of what it was, with ties
\* left in input order; sorted by Alphabetical it is ascending and a second
\* sort in a row leaves it as the first did; sorted by ClosureSize (AddedSize)
\* its closure (added) sizes are non-increasing, missing stats counting as
\* zero.
C9_SortPaths ==
    sort_calls >= 1 =>
        /\ StablePermutation(stats, sort_order, sort_in, sort_out)
        /\ sort_order = "Alphabetical" =>
              \A i \in 1..(Len(sort_out) - 1) : sort_out[i] <= sort_out[i + 1]
        /\ sort_order # "Alphabetical" =>
              \A i \in 1..(Len(sort_out) - 1) :
                  SortKey(stats, sort_order, sort_out[i])
                      >= SortKey(stats, sort_order, sort_out[i + 1])
        /\ sort_calls >= 2 => sort_out = sort_paths(sort_in, stats, sort_order)

\* Witness of C9: a sort by closure size that moved an absent identifier
\* (no stats) behind present ones and left two distinct tied paths, given in
\* descending order of identifier, as they were; the sort has run twice.
C9_Witness ==
    /\ sort_calls = 2
    /\ sort_order = "ClosureSize"
    /\ Len(sort_in) = 3
    /\ sort_in[1] = 0
    /\ sort_out[3] = 0
    /\ sort_out[1] > sort_out[2]
    /\ SortKey(stats, sort_order, sort_out[1]) = SortKey(stats, sort_order, sort_out[2])

\* Witness of the Alphabetical case of C9: an unsorted slice sorted twice.
C9_WitnessAlphabetical ==
    /\ sort_calls = 2
    /\ sort_order = "Alphabetical"
    /\ sort_in = <<3, 0, 2>>
    /\ sort_out = <<0, 2, 3>>

-----------------------------------------------------------------------------
(* Claims about the Navigator, checked under Spec *)

\* Browsing: the loop is running and no modal is open.
Browsing(a) == ~a.searching /\ ~a.show_help

DescendKeys == {"Right", "l", "Enter"}
BackKeys == {"Left", "h"}

\* The part of the App that a search without a match must leave alone: the
\* three lists, the three cursors, the active pane, the focused identifier
\* and the sort order.
View(a) ==
    <<a.previous_items, a.current_items, a.next_items,
      a.previous_state, a.current_state, a.next_state,
      a.active_pane, a.current_path, a.sort_order>>

\* The App after the keys of the sequence ks, pressed one after the other.
RECURSIVE AfterKeys(_, _)
AfterKeys(a, ks) ==
    IF ks = <<>> THEN a ELSE AfterKeys(handle_key(a, Head(ks)).app, Tail(ks))

\* The queries that can be typed, the empty one included.
Queries == SeqsUpTo(TypedChars, MaxQuery)

\* C5: from every Browsing state with non-empty next_items, a descend key
\* followed by a back key leaves current_items, the cursor of the current
\* list, the identifier under it and the focused identifier as they were
\* before the descend, and the Navigator is still Browsing.
C5_DescendBackRoundTrip ==
    (pc = "tui" /\ Browsing(app) /\ app.next_items # <<>>) =>
        \A d \in DescendKeys, b \in BackKeys :
            LET after == AfterKeys(app, <<d, b>>)
            IN  /\ after.current_items = app.current_items
                /\ after.current_state = app.current_state
                /\ SelectedItem(after.current_state, after.current_items)
                       = SelectedItem(app.current_state, app.current_items)
                /\ after.current_path = app.current_path
                /\ Browsing(after)

\* Witness of C5: Browsing on the current list, second item selected, with
\* non-empty next_items; the descend moves to the next pane, the back key
\* returns from it.
C5_Witness ==
    /\ pc = "tui"
    /\ Browsing(app)
    /\ app.active_pane = "Current"
    /\ app.current_state = 1
    /\ app.next_items # <<>>
    /\ handle_key(app, "Right").app.active_pane = "Next"
    /\ AfterKeys(app, <<"Right", "Left">>).active_pane = "Current"

\* C6: a submitted search whose query is empty or matches no display name
\* leaves the lists, the cursors, the active pane, the focused identifier and
\* the sort order as they were: both for the submit itself, in every state
\* with the search modal open, and for the whole exchange (open the search,
\* type the query, submit) started in any state without the search modal.
C6_SearchNoMatch ==
    pc = "tui" =>
        /\ (app.searching /\ matching_paths(app.search_query) = <<>>) =>
               /\ View(handle_key(app, "Enter").app) = View(app)
               /\ ~handle_key(app, "Enter").app.searching
        /\ (app.searching /\ app.search_query = <<>>) =>
               View(handle_key(app, "Enter").app) = View(app)
        /\ ~app.searching =>
               \A q \in Queries :
                   (q = <<>> \/ matching_paths(q) = <<>>) =>
                       View(AfterKeys(app, <<"/">> \o q \o <<"Enter">>)) = View(app)

\* Witness of C6: the search modal open away from the current pane and from
\* the first item, with a typed query that matches nothing.
C6_Witness ==
    /\ pc = "tui"
    /\ app.searching
    /\ Len(app.search_query) = 2
    /\ matching_paths(app.search_query) = <<>>
    /\ app.active_pane = "Next"
    /\ app.current_state = 1
    /\ app.sort_order = "AddedSize"
    /\ ~handle_key(app, "Enter").app.searching

\* C7 as stated: q/Esc is consumed in the order search-cancel > help-close >
\* quit: with the search modal open Esc cancels the search and does not quit;
\* with the help overlay open (and no search) q/Esc closes the overlay and
\* does not quit; handle_key returns true only when no modal is open, so the
\* loop never ends with a modal open.
C7_QuitPriority ==
    /\ pc = "done" => (~app.searching /\ ~app.show_help)
    /\ pc = "tui" =>
          /\ app.searching =>
                /\ ~handle_key(app, "Esc").quit
                /\ ~handle_key(app, "Esc").app.searching
          /\ (app.show_help /\ ~app.searching) =>
                \A k \in {"q", "Esc"} :
                    /\ ~handle_key(app, k).quit
                    /\ ~handle_key(app, k).app.show_help
          /\ \A k \in KeyCodes :
                handle_key(app, k).quit => (~app.searching /\ ~app.show_help)

\* What holds of q/Esc: the search modal takes them first (Esc cancels the
\* search, q is typed into the query, neither quits); otherwise they quit,
\* the help overlay open or not.
C7_SearchCancelOnly ==
    pc = "tui" =>
        /\ app.searching =>
              \A k \in KeyCodes : ~handle_key(app, k).quit
        /\ ~app.searching =>
              \A k \in KeyCodes : handle_key(app, k).quit <=> k \in {"q", "Esc"}

\* C8 as stated: the search modal and the help overlay are never both on.
C8_AtMostOneModal == ~(app.searching /\ app.show_help)

\* The members of s, as a set, and s ordered by the active sort order.
OrderedBy(st, order, s) ==
    \A i \in 1..(Len(s) - 1) :
        IF order = "Alphabetical" THEN s[i] < s[i + 1]
        ELSE SortKey(st, order, s[i]) >= SortKey(st, order, s[i + 1])

\* The App after the submit of a non-empty query with a match, but for the
\* modal flags: current_items are the matches of the whole graph in the
\* active sort order, the cursor is on the first of them, the current pane is
\* active and the side panes are those of the new selection.
SearchReplaces(a, after) ==
    LET first == after.current_items[1]
    IN  /\ Range(after.current_items) =
              {p \in Ids : contains(to_lowercase(graph.name[p]),
                                    to_lowercase(a.search_query))}
        /\ Len(after.current_items) = Cardinality(Range(after.current_items))
        /\ OrderedBy(stats, a.sort_order, after.current_items)
        /\ after.sort_order = a.sort_order
        /\ after.current_state = 0
        /\ after.active_pane = "Current"
        /\ after.current_path = first
        /\ Range(after.previous_items) =
              {p \in Ids : first \in Range(graph.references[p])}
        /\ Range(after.next_items) = Range(graph.references[first]) \cap Ids
        /\ OrderedBy(stats, a.sort_order, after.previous_items)
        /\ OrderedBy(stats, a.sort_order, after.next_items)
        /\ after.previous_state = None
        /\ after.next_state = None
        /\ ~after.searching

\* C10 as stated: the submit of a non-empty query with at least one match
\* replaces current_items by the matches of the whole graph in the active
\* sort order, puts the cursor on index 0, returns to Browsing and refreshes
\* the side panes for the new selection.
C10_SearchWithMatch ==
    (pc = "tui" /\ app.searching /\ app.search_query # <<>>
        /\ matching_paths(app.search_query) # <<>>) =>
        LET after == handle_key(app, "Enter").app
        IN  SearchReplaces(app, after) /\ Browsing(after)

\* What holds of the submit: everything C10 says but the return to Browsing,
\* which is reached exactly when the help overlay was not left on under the
\* search modal.
C10_ButForHelp ==
    (pc = "tui" /\ app.searching /\ app.search_query # <<>>
        /\ matching_paths(app.search_query) # <<>>) =>
        LET after == handle_key(app, "Enter").app
        IN  SearchReplaces(app, after) /\ (Browsing(after) <=> ~app.show_help)

-----------------------------------------------------------------------------
(* C11: restoration of the terminal *)

\* C11 as stated: whichever step after enable_raw_mode fails, run_tui never
\* returns with raw mode still enabled or the alternate screen still entered.
\* It is violated: a failure of execute!(EnterAlternateScreen, ..) or of
\* Terminal::new returns through `?` before any cleanup.
C11_Restored == pc = "returned" => (~term.raw_mode /\ ~term.alt_screen)

\* What holds: once run_app has returned, by a quit key or by an error of the
\* loop, the cleanup runs, and if none of its own steps fails run_tui returns
\* the result of run_app with raw mode off and the main screen back.
C11_RestoredAfterLoop ==
    /\ pc \in {"disable_raw", "leave_alt", "show_cursor"} => term.result # "none"
    /\ (pc = "returned" /\ term.returned = "result") =>
           (~term.raw_mode /\ ~term.alt_screen /\ term.result # "none")

-----------------------------------------------------------------------------
(* C12: handle_key is total *)

\* An App whose fields hold values of their types: in particular every cursor
\* is None or a natural number, never the leftover of an underflow.
WellFormed(a) ==
    /\ a.sort_order \in SortOrders
    /\ a.active_pane \in Panes
    /\ a.show_help \in BOOLEAN
    /\ a.searching \in BOOLEAN
    /\ a.search_query \in Seq(Chars)
    /\ \A pane \in Panes :
          /\ StateOf(a, pane) \in {None} \cup Nat
          /\ ItemsOf(a, pane) \in Seq(AllIds)
    /\ a.current_path \in {None} \cup AllIds

\* C12: in every reachable state of the Navigator every key, bound or not, is
\* a defined transition or a no-op: handle_key returns Ok(quit) with a
\* well-formed App, no cursor has underflowed, and every cursor it leaves set
\* is read through a bounds-checked get.
C12_HandleKeyTotal ==
    pc = "tui" =>
        /\ WellFormed(app)
        /\ \A k \in KeyCodes :
              LET r == handle_key(app, k)
              IN  /\ r.quit \in BOOLEAN
                  /\ WellFormed(r.app)
                  /\ \A pane \in Panes :
                        SelectedItem(StateOf(r.app, pane), ItemsOf(r.app, pane))
                            \in {None} \cup Range(ItemsOf(r.app, pane))

\* The up key is pressed with the cursor of the next pane at index 0, where
\* only the test i > 0 stands between the cursor and an underflow.
C12_Witness ==
    /\ pc = "tui"
    /\ ~app.searching
    /\ app.active_pane = "Next"
    /\ app.next_state = 0
    /\ handle_key(app, "Up").app = app

-----------------------------------------------------------------------------
(* C13: closing the help overlay *)

\* C13 as stated: while the help overlay is shown, pressing any key closes
\* it.  It is violated: with the overlay shown only '?' closes it.
C13_AnyKeyClosesHelp ==
    (pc = "tui" /\ app.show_help /\ ~app.searching) =>
        \A k \in KeyCodes : ~handle_key(app, k).app.show_help

\* What holds: '?' is the only key that changes show_help, whether the
\* overlay is shown or not; q and Esc end the loop with the overlay still
\* shown, and every other key acts as it does without the overlay.
C13_OnlyToggleCloses ==
    pc = "tui" =>
        \A k \in KeyCodes :
            LET r == handle_key(app, k)
            IN  /\ (r.app.show_help # app.show_help) <=> (~app.searching /\ k = "?")
                /\ (app.show_help /\ ~app.searching /\ k \in {"q", "Esc"}) =>
                       (r.quit /\ r.app.show_help)
                /\ (app.show_help /\ k # "?") =>
                       r.app = [handle_key([app EXCEPT !.show_help = FALSE], k).app
                                   EXCEPT !.show_help = TRUE]

-----------------------------------------------------------------------------
(* C14: the sibling rule of added_size, checked under SpecStats *)

\* The siblings of n: the direct references, other than n itself, of every
\* immediate parent of n.
Siblings(g, n) ==
    {s \in AllIds \ {n} :
        \E p \in Ids : n \in Range(g.references[p]) /\ s \in Range(g.references[p])}

\* C14: the added_size stored for a node n is the total own size of
\* closure(n) minus the union of closure(s) over the siblings s of n.
C14_SiblingRule ==
    pc = "stats" =>
        \A n \in Ids :
            stats[n].added_size =
                TotalOwnSize(graph,
                    Reachable(graph, n)
                        \ UNION {Reachable(graph, s) : s \in Siblings(graph, n)})

\* Witness of C14: in the diamond with power-of-two sizes node 2 has the
\* sibling 3, whose closure takes the shared node 4 out of the 2 + 8 that
\* node 2 reaches.
C14_Witness ==
    /\ pc = "stats"
    /\ IsDiamond(graph)
    /\ graph.nar_size[4] = 8
    /\ Siblings(graph, 2) = {3}
    /\ stats[2].closure_size = 10
    /\ stats[2].added_size = 2

-----------------------------------------------------------------------------
(* C15: the descend key *)

\* The states C15 is about: Browsing, the current pane active and an item of
\* the current list selected.
CanDescend(a) ==
    Browsing(a) /\ a.active_pane = "Current" /\ a.current_state # None

\* C15 as stated: a descend key pressed in such a state with non-empty
\* next_items makes the former next_items the list being navigated with its
\* cursor at index 0, whatever keys were pressed before; with empty
\* next_items it changes nothing.  It is violated: a cursor left in the next
\* pane by an earlier visit is kept.
C15_Original ==
    (pc = "tui" /\ CanDescend(app)) =>
        \A d \in DescendKeys :
            LET after == handle_key(app, d).app
            IN  IF app.next_items # <<>>
                THEN /\ ItemsOf(after, after.active_pane) = app.next_items
                     /\ StateOf(after, after.active_pane) = 0
                ELSE after = app

\* C15 as amended: the descend key makes the former next_items the list
\* being navigated by moving the focus to the next pane; the cursor of that
\* list is put at index 0 if the pane had none, and is otherwise the valid
\* index an earlier visit left there; the three lists, the other cursors and
\* the sort order stay; with empty next_items the key changes nothing; the
\* loop goes on in either case.
C15_Amended ==
    (pc = "tui" /\ CanDescend(app)) =>
        \A d \in DescendKeys :
            LET after == handle_key(app, d).app
            IN  /\ ~handle_key(app, d).quit
                /\ IF app.next_items # <<>>
                   THEN /\ after.active_pane = "Next"
                        /\ ItemsOf(after, after.active_pane) = app.next_items
                        /\ StateOf(after, after.active_pane) =
                               (IF app.next_state = None THEN 0 ELSE app.next_state)
                        /\ StateOf(after, after.active_pane)
                               \in 0..(Len(app.next_items) - 1)
                        /\ after = [app EXCEPT !.active_pane = "Next",
                                               !.next_state = after.next_state]
                   ELSE after = app

\* Witness of C15: the current pane is active again after a visit of the next
\* pane that left its cursor on index 1, and the descend key keeps it there.
C15_Witness ==
    /\ pc = "tui"
    /\ CanDescend(app)
    /\ app.next_state = 1
    /\ handle_key(app, "Right").app.active_pane = "Next"
    /\ handle_key(app, "Right").app.next_state = 1

-----------------------------------------------------------------------------
(* C16: the back key *)

\* C16 as stated, for the state reached without any key: in the initial state
\* a back key leaves the whole state unchanged.  It is violated: the key moves
\* the focus from the current pane to the previous pane.
C16_Original ==
    (pc = "tui" /\ app = AppNew) =>
        \A b \in BackKeys :
            /\ ~handle_key(app, b).quit
            /\ handle_key(app, b).app = app

\* C16 as amended: outside the search modal a back key changes nothing but
\* the active pane, which moves one pane to the left (next to current,
\* current to previous), whether or not a descend came before; the key is a
\* no-op exactly when the previous pane is already active, and never ends
\* the loop.
C16_Amended ==
    (pc = "tui" /\ ~app.searching) =>
        \A b \in BackKeys :
            LET after == handle_key(app, b).app
                left == CASE app.active_pane = "Next" -> "Current"
                          [] app.active_pane = "Current" -> "Previous"
                          [] app.active_pane = "Previous" -> "Previous"
            IN  /\ ~handle_key(app, b).quit
                /\ after = [app EXCEPT !.active_pane = left]
                /\ (after = app) <=> (app.active_pane = "Previous")

\* Witness of C16: a back key pressed in the next pane, after a descend, takes
\* the focus to the current pane, from where a second one takes it on to the
\* previous pane.
C16_Witness ==
    /\ pc = "tui"
    /\ Browsing(app)
    /\ app.active_pane = "Next"
    /\ app.next_state = 1
    /\ handle_key(app, "h").app.active_pane = "Current"
    /\ AfterKeys(app, <<"h", "Left">>).active_pane = "Previous"

-----------------------------------------------------------------------------
(* C17: the cycle-sort key *)

\* out holds the elements of in, each as often as in does.
IsPermutation(in, out) ==
    /\ Len(out) = Len(in)
    /\ \A x \in Range(in) \cup Range(out) :
          Len(SelectSeq(out, LAMBDA y : y = x)) = Len(SelectSeq(in, LAMBDA y : y = x))

\* C17: outside the search modal the cycle-sort key advances the sort order
\* cyclically, so that three presses return to the order they started from;
\* it sorts all three lists again by the new order, each a permutation of what
\* it was; the cursor indices, the active pane, the modal flags and the search
\* buffer are left as they were, and the loop goes on.
C17_CycleSort ==
    (pc = "tui" /\ ~app.searching) =>
        LET after == handle_key(app, "s").app
        IN  /\ ~handle_key(app, "s").quit
            /\ after.sort_order =
                   (CASE app.sort_order = "Alphabetical" -> "ClosureSize"
                      [] app.sort_order = "ClosureSize" -> "AddedSize"
                      [] app.sort_order = "AddedSize" -> "Alphabetical")
            /\ AfterKeys(app, <<"s", "s">>).sort_order \notin
                   {app.sort_order, after.sort_order}
            /\ AfterKeys(app, <<"s", "s", "s">>).sort_order = app.sort_order
            /\ \A pane \in Panes :
                  /\ IsPermutation(ItemsOf(app, pane), ItemsOf(after, pane))
                  /\ OrderedBy(stats, after.sort_order, ItemsOf(after, pane))
                  /\ StateOf(after, pane) = StateOf(app, pane)
            /\ after.active_pane = app.active_pane
            /\ after.show_help = app.show_help
            /\ after.searching = app.searching
            /\ after.search_query = app.search_query

\* Witness of C17: the key is pressed with the cursor of the next pane on
\* index 1 of a list that the new order rearranges; the cursor stays on
\* index 1, under another item.
C17_Witness ==
    /\ pc = "tui"
    /\ ~app.searching
    /\ app.active_pane = "Next"
    /\ app.next_state = 1
    /\ handle_key(app, "s").app.next_items # app.next_items
    /\ handle_key(app, "s").app.next_state = 1

-----------------------------------------------------------------------------
(* C18: the cursors *)

DownKeys == {"Down", "j"}
UpKeys == {"Up", "k"}

\* The cursor of the pane, when set, is an index of the list of the pane.
CursorValid(a, pane) ==
    StateOf(a, pane) = None
        \/ StateOf(a, pane) \in 0..(Len(ItemsOf(a, pane)) - 1)

\* C18: in every reachable state the cursor of each pane, when set, is a valid
\* index of the list of its pane; outside the search modal the down and up
\* keys keep the active pane and its list, move its cursor by at most one
\* position, stop at the last and at the first index, and change nothing at
\* all when the list is empty.
C18_CursorsValid ==
    pc = "tui" =>
        /\ \A pane \in Panes : CursorValid(app, pane)
        /\ ~app.searching =>
              \A k \in DownKeys \cup UpKeys :
                  LET after == handle_key(app, k).app
                      pane == app.active_pane
                      items == ItemsOf(app, pane)
                      before == StateOf(app, pane)
                      now == StateOf(after, pane)
                      last == Len(items) - 1
                  IN  /\ ~handle_key(app, k).quit
                      /\ after.active_pane = pane
                      /\ ItemsOf(after, pane) = items
                      /\ \A other \in Panes : CursorValid(after, other)
                      /\ items = <<>> => after = app
                      /\ (items # <<>> /\ before = None) =>
                             IF k \in DownKeys THEN now = 0 ELSE after = app
                      /\ before # None =>
                             IF k \in DownKeys
                             THEN now = (IF before = last THEN last ELSE before + 1)
                             ELSE now = (IF before = 0 THEN 0 ELSE before - 1)

\* Witness of C18: the down key is pressed with the cursor of the next pane on
\* the last index of a list of two items or more, and changes nothing.
C18_Witness ==
    /\ pc = "tui"
    /\ ~app.searching
    /\ app.active_pane = "Next"
    /\ Len(app.next_items) >= 2
    /\ app.next_state = Len(app.next_items) - 1
    /\ handle_key(app, "j").app = app

-----------------------------------------------------------------------------
(* C19: the keys of the search modal *)

\* What C19 says of the key k pressed in the App a with the search modal
\* open, but for the state Esc returns to: no key ends the loop, no key other
\* than Enter changes the lists, the cursors, the active pane, the focused
\* identifier or the sort order, a character is appended to the buffer,
\* Backspace removes its last character, and Esc closes the modal, clears the
\* buffer and leaves current_items alone.
SearchKey(a, k) ==
    LET r == handle_key(a, k)
    IN  /\ ~r.quit
        /\ k # "Enter" => View(r.app) = View(a)
        /\ r.app.show_help = a.show_help
        /\ k \in Chars =>
               (r.app.search_query = Append(a.search_query, k) /\ r.app.searching)
        /\ k = "Backspace" =>
               /\ r.app.searching
               /\ r.app.search_query =
                      SubSeq(a.search_query, 1, Len(a.search_query) - 1)
        /\ k = "Esc" =>
               /\ ~r.app.searching
               /\ r.app.search_query = <<>>
               /\ r.app.current_items = a.current_items
        /\ k \notin {"Enter", "Backspace", "Esc"} \cup Chars => r.app = a

\* C19 as stated: while the search modal is open the keys act as SearchKey
\* says and Esc returns to Browsing.  It is violated in the states in which
\* the help overlay was left on under the search modal (see C8): there Esc
\* returns to the help overlay.
C19_SearchModal ==
    (pc = "tui" /\ app.searching) =>
        \A k \in KeyCodes :
            /\ SearchKey(app, k)
            /\ k = "Esc" => Browsing(handle_key(app, k).app)

\* What holds: the keys act as SearchKey says in every reachable state with
\* the search modal open, and Esc returns to Browsing whenever the help
\* overlay is not on.
C19_ButForHelp ==
    (pc = "tui" /\ app.searching) =>
        \A k \in KeyCodes :
            /\ SearchKey(app, k)
            /\ (k = "Esc" /\ ~app.show_help) => Browsing(handle_key(app, k).app)

-----------------------------------------------------------------------------
(* C20: the side panes and the selected item *)

\* The item under the cursor of the current list, or None.
SelectedCurrent(a) == SelectedItem(a.current_state, a.current_items)

\* previous_items holds exactly the immediate parents of x and next_items
\* exactly the direct references of x that are present in the store, each
\* once.
SidePanesOf(a, x) ==
    /\ Range(a.previous_items) = {p \in Ids : x \in Range(graph.references[p])}
    /\ Len(a.previous_items) = Cardinality(Range(a.previous_items))
    /\ Range(a.next_items) = Range(graph.references[x]) \cap Ids
    /\ Len(a.next_items) = Cardinality(Range(a.next_items))

\* C20 as stated: in every reachable state in which the current list has a
\* selected item x, the side panes are those of x.  It is violated after sort
\* cycling: the current list is sorted again under a cursor that stays on its
\* index, and the side panes are not computed again.
C20_Original ==
    (pc = "tui" /\ SelectedCurrent(app) # None) =>
        SidePanesOf(app, SelectedCurrent(app))

\* What holds: the side panes are always those of one item of the current
\* list; they are those of the selected item x in the initial state, and from
\* a state in which they are, every key keeps them so (cursor moves, pane
\* changes, searches, the keys of the modals) except the cycle-sort key,
\* which leaves them those of x even when another item comes to lie under the
\* cursor.
C20_ButForSort ==
    (pc = "tui" /\ SelectedCurrent(app) # None) =>
        LET x == SelectedCurrent(app)
        IN  /\ \E y \in Range(app.current_items) : SidePanesOf(app, y)
            /\ app = AppNew => SidePanesOf(app, x)
            /\ SidePanesOf(app, x) =>
                  \A k \in KeyCodes :
                      LET after == handle_key(app, k).app
                      IN  IF k = "s" /\ ~app.searching
                          THEN SidePanesOf(after, x)
                          ELSE SidePanesOf(after, SelectedCurrent(after))

-----------------------------------------------------------------------------
(* C21: the focused identifier *)

\* The item under the cursor of the active pane, or None.
SelectedActive(a) ==
    SelectedItem(StateOf(a, a.active_pane), ItemsOf(a, a.active_pane))

\* C21 as stated: in every reachable state the focused identifier recorded
\* for the status line is the identifier under the cursor of the active pane
\* whenever that pane has a selection.  It is violated: a pane change and a
\* re-sort leave current_path as it was.
C21_FocusedIsSelected ==
    (pc = "tui" /\ SelectedActive(app) # None) =>
        app.current_path = SelectedActive(app)

\* What holds: the focused identifier is the selected item of the active
\* pane in the initial state, after every down key on a non-empty list, after
\* every up key that moves the cursor and after every search with a match;
\* the pane keys and the cycle-sort key never write it.
C21_FocusedAfterRefresh ==
    pc = "tui" =>
        /\ app = AppNew => app.current_path = SelectedActive(app)
        /\ ~app.searching =>
              /\ \A k \in DownKeys :
                    LET after == handle_key(app, k).app
                    IN  ItemsOf(app, app.active_pane) # <<>> =>
                            (/\ SelectedActive(after) # None
                             /\ after.current_path = SelectedActive(after))
              /\ \A k \in UpKeys :
                    LET after == handle_key(app, k).app
                    IN  StateOf(after, after.active_pane)
                            # StateOf(app, app.active_pane) =>
                                after.current_path = SelectedActive(after)
              /\ \A k \in DescendKeys \cup BackKeys \cup {"s"} :
                    handle_key(app, k).app.current_path = app.current_path
        /\ app.searching =>
              LET after == handle_key(app, "Enter").app
              IN  after.current_items # app.current_items =>
                      after.current_path = SelectedActive(after)

-----------------------------------------------------------------------------
(* C22: how deep the navigation goes *)

\* The Apps reached from those of S by any sequence of keys of K.
RECURSIVE NavClosure(_, _)
NavClosure(S, K) ==
    LET T == S \cup {handle_key(a, k).app : a \in S, k \in K}
    IN  IF T = S THEN S ELSE NavClosure(T, K)

\* The artifacts reachable from a root through references present in the
\* store.
BelowRoots(g) == UNION {Reachable(g, r) : r \in Range(g.roots)} \cap Ids

\* The roots, and what lies one reference step from a root.
NearRoots(g) ==
    Range(g.roots)
        \cup {p \in Ids : \E r \in Range(g.roots) :
                  p \in Range(g.references[r]) \/ r \in Range(g.references[p])}

\* C22 as stated: for every artifact reachable from a root through references
\* present in the store, some sequence of up, down and descend keys from the
\* initial state makes it the focused identifier.  It is violated: an
\* artifact two reference steps below every root is never focused.
C22_DepthUnbounded ==
    (pc = "tui" /\ app = AppNew) =>
        \A x \in BelowRoots(graph) :
            \E a \in NavClosure({AppNew}, UpKeys \cup DownKeys \cup DescendKeys) :
                a.current_path = x

\* What holds: without a search, whatever keys are pressed, the focused
\* identifier is a root or lies one reference step from a root, every such
\* artifact below a root is focused by some sequence of keys, and a descend
\* key pressed in the next pane changes nothing.
C22_DepthOne ==
    (pc = "tui" /\ app = AppNew) =>
        LET reached == NavClosure({AppNew}, KeyCodes \ {"/", "q", "Esc"})
        IN  /\ \A a \in reached :
                  /\ a.current_path \in NearRoots(graph)
                  /\ a.active_pane = "Next" =>
                        \A d \in DescendKeys : handle_key(a, d).app = a
            /\ \A x \in NearRoots(graph) \cap BelowRoots(graph) :
                  \E a \in reached : a.current_path = x

-----------------------------------------------------------------------------
(* C23: leaving the previous pane *)

\* C23 as stated: in every reachable state in which the previous pane is
\* active, a descend key makes the current pane active again, also when
\* previous_items is empty or has no selection.  It is violated: without a
\* selection in the previous pane the key does nothing.
C23_RightReturns ==
    (pc = "tui" /\ ~app.searching /\ app.active_pane = "Previous") =>
        \A d \in DescendKeys : handle_key(app, d).app.active_pane = "Current"

\* What holds: with the previous pane active a descend key makes the current
\* pane active exactly when the previous pane has a selection; without one it
\* changes nothing, and when previous_items is empty no sequence of keys
\* other than a search brings the focus back, the loop being left only by
\* quitting.
C23_StuckWithoutSelection ==
    (pc = "tui" /\ ~app.searching /\ app.active_pane = "Previous") =>
        /\ \A d \in DescendKeys :
              LET after == handle_key(app, d).app
              IN  IF app.previous_state # None
                  THEN after = [app EXCEPT !.active_pane = "Current"]
                  ELSE after = app
        /\ app.previous_items = <<>> =>
              \A a \in NavClosure({app}, KeyCodes \ {"/", "q", "Esc"}) :
                  a.active_pane = "Previous"

-----------------------------------------------------------------------------
(* C24: the lists follow the sort order *)

\* C24: in every reachable state each of the three lists is ordered
\* consistently with the active sort order: ascending by identifier under
\* Alphabetical, non-increasing by closure size under ClosureSize and by
\* added size under AddedSize, missing stats counting as zero.
C24_ListsOrdered ==
    pc = "tui" =>
        \A pane \in Panes : OrderedBy(stats, app.sort_order, ItemsOf(app, pane))

\* Witness of C24: under AddedSize the next pane, which is active, shows two
\* items against the order of their identifiers.
C24_Witness ==
    /\ pc = "tui"
    /\ app.sort_order = "AddedSize"
    /\ Len(app.next_items) = 2
    /\ app.next_items[1] > app.next_items[2]
    /\ SortKey(stats, "AddedSize", app.next_items[1])
           > SortKey(stats, "AddedSize", app.next_items[2])
    /\ app.active_pane = "Next"

-----------------------------------------------------------------------------
(* C25: the lazy and the eager added size, checked under SpecStats *)

\* C25: for every graph, acyclic or not and with or without references to
\* absent identifiers, and for every node n present in the store,
\* calculate_added_size_for_path(n) returns the value calculate_added_sizes
\* stores as added_size of n: on the stats of calculate_stats where it
\* completes, and on the table of immediate parents where it aborts.
C25_LazyAgrees ==
    /\ pc = "crashed" =>
           LET st == ParentsTable(graph)
               eager == calculate_added_sizes(st, graph)
           IN  \A n \in Ids :
                   calculate_added_size_for_path(n, graph, st) = eager[n].added_size
    /\ pc = "stats" =>
           \A n \in Ids :
               calculate_added_size_for_path(n, graph, stats) = stats[n].added_size

\* Witness of C25: a graph with a reference cycle, on which calculate_stats
\* has aborted, and a node on it whose lazy added size is neither 0 nor the
\* size of all it reaches.
C25_Witness ==
    /\ pc = "crashed"
    /\ ~Acyclic(graph)
    /\ \E n \in Ids :
          LET lazy == calculate_added_size_for_path(n, graph, ParentsTable(graph))
          IN  /\ \E r \in Range(graph.references[n]) : n \in Reachable(graph, r)
              /\ 0 < lazy
              /\ lazy < TotalOwnSize(graph, Reachable(graph, n))

-----------------------------------------------------------------------------
(* C26: the cursors of the side panes after a refresh *)

\* The keys that refresh the panes for a selection in the current list: a
\* down key, an up key that moves the cursor, and the submit of a search with
\* a match.
Refreshes(a, k) ==
    IF a.searching
    THEN k = "Enter" /\ a.search_query # <<>> /\ matching_paths(a.search_query) # <<>>
    ELSE /\ a.active_pane = "Current"
         /\ \/ k \in DownKeys /\ a.current_items # <<>>
            \/ k \in UpKeys /\ a.current_state # None /\ a.current_state > 0

\* C26 as stated: after every refresh of the panes for a selection in the
\* current list, App::new included, the cursor of each side pane is 0 if its
\* list is non-empty and unset otherwise.  It is violated: the cursors are
\* unset also when the lists are not empty.
C26_Original ==
    pc = "tui" =>
        LET AtFirst(a) ==
                /\ a.previous_state = (IF a.previous_items # <<>> THEN 0 ELSE None)
                /\ a.next_state = (IF a.next_items # <<>> THEN 0 ELSE None)
        IN  /\ app = AppNew => AtFirst(app)
            /\ \A k \in KeyCodes :
                  Refreshes(app, k) => AtFirst(handle_key(app, k).app)

\* C26 as amended: after every refresh of the panes for a selection in the
\* current list, App::new included, both side-pane cursors are unset, whether
\* the side lists are empty or not, and the side lists are those of the
\* selected item.
C26_Amended ==
    pc = "tui" =>
        LET Unset(a) ==
                /\ a.previous_state = None
                /\ a.next_state = None
                /\ SidePanesOf(a, SelectedCurrent(a))
        IN  /\ app = AppNew => Unset(app)
            /\ \A k \in KeyCodes :
                  Refreshes(app, k) => Unset(handle_key(app, k).app)

\* Witness of C26: the current pane is active with the cursor of the next
\* pane left on index 1 by an earlier visit; a down key refreshes the panes
\* for another item, whose references are not empty, and unsets the cursor.
C26_Witness ==
    /\ pc = "tui"
    /\ Refreshes(app, "Down")
    /\ app.next_state = 1
    /\ handle_key(app, "Down").app.current_state # app.current_state
    /\ handle_key(app, "Down").app.next_items # <<>>
    /\ handle_key(app, "Down").app.next_state = None

-----------------------------------------------------------------------------
(* C27: the order of startup, checked under SpecMain *)

\* C27: the resolution call has completed with success before the metadata
\* call is issued; stats are computed only after the metadata call has
\* succeeded; if either call fails, whatever the failure, main returns the
\* error at once: no later step is taken, raw mode is never entered and the
\* loop never starts; and raw mode is entered and the loop started only
\* after both calls have succeeded and the stats are there.
C27_StartupOrder ==
    /\ startup.query # "none" => startup.resolve = "ok"
    /\ (stats # <<>> \/ pc \in {"stats", "crashed"}) => startup.query = "ok"
    /\ (startup.resolve \in Failures \/ startup.query \in Failures) =>
           /\ pc = "exited"
           /\ startup.error \in {startup.resolve, startup.query} \cap Failures
           /\ startup.resolve \in Failures => startup.query = "none"
           /\ graph = NoGraph
           /\ stats = <<>>
           /\ term = NoTerm
           /\ app = NoApp
    /\ (term # NoTerm \/ app # NoApp \/ pc \in {"run_tui", "tui"}) =>
           /\ startup = StartedUp
           /\ stats # <<>>
    /\ pc = "run_tui" =>
           /\ calculate_stats(graph).ok
           /\ stats = calculate_stats(graph).stats

\* Witness of C27: the metadata call has failed on malformed JSON after the
\* resolution call succeeded, and main has returned the error.
C27_Witness ==
    /\ pc = "exited"
    /\ startup.resolve = "ok"
    /\ startup.query = "json"
    /\ startup.error = "json"
    /\ ~term.raw_mode

====
